---------------------------- MODULE Spec2Model ----------------------------
(***************************************************************************)
(* A model of frankenz/pdf.py: the kernel dictionary PDFDict (__init__ and *)
(* fit), the dictionary stacker gauss_kde_dict and the direct stacker      *)
(* gauss_kde.                                                              *)
(*                                                                         *)
(* Conventions.                                                            *)
(*  - Array indices kept in the state (grid indices, dictionary indices,   *)
(*    observation indices in sel_arr) are the 0-based indices of the       *)
(*    Python code; a TLA+ sequence s holds Python's s[i] at s[i + 1].      *)
(*  - Real numbers given by the caller (grid points, sigmas, observed      *)
(*    values, weights) are integers.  Quotients the code forms in float64  *)
(*    are exact rationals [n |-> numerator, d |-> denominator]; d = 0      *)
(*    encodes the IEEE values the code can produce by dividing by zero:    *)
(*    n = 1 is +inf, n = -1 is -inf and n = 0 is nan.                      *)
(*  - gaussian() is tabulated in fixed point (hundredths, rounded up so    *)
(*    that, as in float64 over these ranges, every sample is positive).    *)
(***************************************************************************)
EXTENDS Integers, Sequences, FiniteSets, TLC

\* pdfdict is the dictionary object; call is the frame of the caller's running
\* call; other is the frame of a second caller working on the same
\* dictionary; heap holds the arrays that the two callers' calls share with
\* their callers or store into, each under the reference the code holds.
VARIABLES pdfdict, call, other, heap

vars == <<pdfdict, call, other, heap>>

\* Python's None, for optional arrays, records and thresholds (every array
\* the model passes is non-empty, so the empty tuple is free to stand for it).
None == <<>>

\* The exc field of a call that has raised nothing.
NoExc == "none"

\* The heap with no array in it.
EmptyHeap == [r \in {} |-> <<>>]

(***************************************************************************)
(* Bounds of the model.                                                    *)
(***************************************************************************)
\* Largest grid length handed to PDFDict / gauss_kde.
MaxNgrid == 5
\* Largest number of observations in one batch.
MaxNy == 2
\* How far beyond either end of the grid a raw value handed to fit may lie.
FitPad == 7

(***************************************************************************)
(* Integer helpers.                                                        *)
(***************************************************************************)
Abs(a) == IF a < 0 THEN -a ELSE a

Min2(a, b) == IF a < b THEN a ELSE b

Max2(a, b) == IF a > b THEN a ELSE b

RECURSIVE Gcd(_, _)
Gcd(a, b) == IF b = 0 THEN a ELSE Gcd(b, a % b)

\* floor(n / d) for d > 0.
FloorDiv(n, d) == IF n >= 0 THEN n \div d ELSE -(((-n) + d - 1) \div d)

\* ceil(n / d) for d > 0 (np.ceil of the float quotient).
CeilDiv(n, d) == -FloorDiv(-n, d)

\* Conversion of the float n / d (d > 0) to 'int': truncation toward zero.
TruncDiv(n, d) == IF n >= 0 THEN n \div d ELSE -((-n) \div d)

\* np.round of n / d (d > 0): to the nearest integer, halves to the even one.
RoundHalfEven(n, d) ==
    LET q == FloorDiv(n, d)
        r == n - q * d
    IN  IF 2 * r < d THEN q
        ELSE IF 2 * r > d THEN q + 1
        ELSE IF Abs(q) % 2 = 0 THEN q ELSE q + 1

RECURSIVE SumSeq(_)
SumSeq(s) == IF s = <<>> THEN 0 ELSE s[1] + SumSeq(Tail(s))

RECURSIVE MaxSeq(_)
MaxSeq(s) == IF Len(s) = 1 THEN s[1] ELSE Max2(s[1], MaxSeq(Tail(s)))

Range(s) == {s[j] : j \in 1..Len(s)}

(***************************************************************************)
(* float64 values: exact rationals plus inf and nan.                       *)
(***************************************************************************)
IsNan(a) == a.d = 0 /\ a.n = 0

IsInf(a) == a.d = 0 /\ a.n # 0

IsFinite(a) == a.d # 0

Sign(v) == IF v > 0 THEN 1 ELSE IF v < 0 THEN -1 ELSE 0

\* The float n / d: finite when d # 0, else +-inf (n # 0) or nan (0 / 0).
Frac(n, d) ==
    IF d = 0 THEN [n |-> Sign(n), d |-> 0]
    ELSE LET g == Gcd(Abs(n), Abs(d))
             s == IF d < 0 THEN -1 ELSE 1
         IN  [n |-> s * (n \div g), d |-> s * (d \div g)]

FZero == [n |-> 0, d |-> 1]

FInt(v) == [n |-> v, d |-> 1]

\* a + b in IEEE arithmetic.
FAdd(a, b) ==
    IF IsNan(a) \/ IsNan(b) THEN [n |-> 0, d |-> 0]
    ELSE IF IsInf(a) /\ IsInf(b)
         THEN (IF a.n = b.n THEN a ELSE [n |-> 0, d |-> 0])
    ELSE IF IsInf(a) THEN a
    ELSE IF IsInf(b) THEN b
    ELSE Frac(a.n * b.d + b.n * a.d, a.d * b.d)

\* a * v for an integer v.
FScale(a, v) ==
    IF IsNan(a) THEN a
    ELSE IF IsInf(a) THEN [n |-> a.n * Sign(v), d |-> 0]
    ELSE Frac(a.n * v, a.d)

RECURSIVE FSum(_)
FSum(s) == IF s = <<>> THEN FZero ELSE FAdd(s[1], FSum(Tail(s)))

(***************************************************************************)
(* Python / NumPy indexing.                                                *)
(***************************************************************************)
\* Whether s[i] is a valid index expression (negative i counts from the end).
PyIndexOk(s, i) == -Len(s) <= i /\ i < Len(s)

\* s[i] for a valid i.
PyIndex(s, i) == IF i < 0 THEN s[Len(s) + i + 1] ELSE s[i + 1]

\* A slice bound as Python resolves it against a length.
PyBound(len, b) == IF b < 0 THEN Max2(len + b, 0) ELSE Min2(b, len)

\* s[a:b].
PySlice(s, a, b) ==
    LET lo == PyBound(Len(s), a)
        hi == PyBound(Len(s), b)
    IN  IF lo >= hi THEN <<>> ELSE SubSeq(s, lo + 1, hi)

\* Whether  target += source  is accepted for 1-d arrays of these lengths:
\* the source must have the target's length or broadcast from length 1.
BroadcastOk(tlen, slen) == slen = tlen \/ slen = 1

\* The source of  target += source  stretched to the target's length.
Broadcast(tlen, src) ==
    IF Len(src) = tlen THEN src ELSE [j \in 1..tlen |-> src[1]]

\* np.cumsum.
RECURSIVE CumSum(_)
CumSum(s) ==
    IF s = <<>> THEN <<>>
    ELSE LET front == CumSum(SubSeq(s, 1, Len(s) - 1))
         IN  Append(front, (IF front = <<>> THEN 0 ELSE front[Len(front)])
                           + s[Len(s)])

(***************************************************************************)
(* gaussian(mu, std, x): N(x | mu, std), in hundredths rounded up.         *)
(***************************************************************************)
GaussTab ==
    << <<40, 25,  6,  1,  1,  1,  1,  1,  1,  1>>,
       <<20, 18, 13,  7,  3,  1,  1,  1,  1,  1>>,
       <<14, 13, 11,  9,  6,  4,  2,  1,  1,  1>>,
       <<10, 10,  9,  8,  7,  5,  4,  3,  2,  1>> >>

GaussVal(std, dist) ==
    IF dist + 1 <= Len(GaussTab[std]) THEN GaussTab[std][dist + 1] ELSE 1

gaussian(mu, std, x) == [j \in 1..Len(x) |-> GaussVal(std, Abs(x[j] - mu))]

(***************************************************************************)
(* PDFDict.__init__                                                        *)
(***************************************************************************)
PDFDict_init(pdf_grid, sigma_grid, sigma_trunc) ==
    LET Ngrid == Len(pdf_grid)
        delta == pdf_grid[2] - pdf_grid[1]
        Ndict == Len(sigma_grid)
        sigma_width ==
            [i \in 1..Ndict |-> CeilDiv(sigma_grid[i] * sigma_trunc, delta)]
        mid == Ngrid \div 2
        sigma_dict ==
            [i \in 1..Ndict |->
                gaussian(pdf_grid[mid + 1], sigma_grid[i],
                         PySlice(pdf_grid, mid - sigma_width[i],
                                 mid + sigma_width[i] + 1))]
    IN  [Ngrid          |-> Ngrid,
         delta          |-> delta,
         grid           |-> pdf_grid,
         Ndict          |-> Ndict,
         sigma_grid     |-> sigma_grid,
         dsigma         |-> sigma_grid[2] - sigma_grid[1],
         sigma_width    |-> sigma_width,
         sigma_dict     |-> sigma_dict,
         sigma_dict_cdf |-> [i \in 1..Ndict |-> CumSum(sigma_dict[i])]]

(***************************************************************************)
(* PDFDict.fit, for one observation (the code maps arrays elementwise).    *)
(***************************************************************************)
fit_X_idx(self, X) == RoundHalfEven(X - self.grid[1], self.delta)

\* Variant of fit_Xe_idx without the error ceiling of line 748.
fit_Xe_idx_no_ceiling(self, Xe) ==
    LET r == RoundHalfEven(Xe - self.sigma_grid[1], self.dsigma)
    IN  IF r < 0 THEN 0 ELSE r

\* Variant of fit_Xe_idx that does not subtract sigma_grid[0] (line 746).
fit_Xe_idx_no_origin(self, Xe) ==
    LET r == RoundHalfEven(Xe, self.dsigma)
        c == IF r >= self.Ndict THEN self.Ndict - 1 ELSE r
    IN  IF c < 0 THEN 0 ELSE c

fit_Xe_idx(self, Xe) ==
    LET r == RoundHalfEven(Xe - self.sigma_grid[1], self.dsigma)
        c == IF r >= self.Ndict THEN self.Ndict - 1 ELSE r
    IN  IF c < 0 THEN 0 ELSE c

\* PDFDict.fit on arrays: the pair (X_idx, Xe_idx).
fit(self, X, Xe) ==
    [X_idx  |-> [j \in 1..Len(X) |-> fit_X_idx(self, X[j])],
     Xe_idx |-> [j \in 1..Len(Xe) |-> fit_Xe_idx(self, Xe[j])]]

(***************************************************************************)
(* float64 comparisons (any comparison with nan is false).                 *)
(***************************************************************************)
FGt(a, b) ==
    IF IsNan(a) \/ IsNan(b) THEN FALSE
    ELSE IF IsInf(a) THEN a.n = 1 /\ ~(IsInf(b) /\ b.n = 1)
    ELSE IF IsInf(b) THEN b.n = -1
    ELSE a.n * b.d > b.n * a.d

FLe(a, b) == ~IsNan(a) /\ ~IsNan(b) /\ ~FGt(a, b)

NegInf == [n |-> -1, d |-> 0]

\* np.arange(Ny)[mask]: the indices j (0-based) with mask[j + 1], ascending.
RECURSIVE MaskedArange(_, _)
MaskedArange(mask, from) ==
    IF from >= Len(mask) THEN <<>>
    ELSE (IF mask[from + 1] THEN <<from>> ELSE <<>>)
         \o MaskedArange(mask, from + 1)

\* idx_sort[mask]: the entries of idx_sort at the masked places, in order.
RECURSIVE MaskedSeq(_, _, _)
MaskedSeq(s, mask, from) ==
    IF from > Len(s) THEN <<>>
    ELSE (IF mask[from] THEN <<s[from]>> ELSE <<>>)
         \o MaskedSeq(s, mask, from + 1)

\* The results np.argsort(y_wt) may return: every permutation of the indices
\* 0..Ny-1 that puts the weights in ascending order (the default sort kind
\* is not stable, so the order among ties is not fixed).
ArgSorts(y_wt) ==
    LET Ny == Len(y_wt)
    IN  {p \in [1..Ny -> 0..(Ny - 1)] :
            /\ \A a, b \in 1..Ny : a # b => p[a] # p[b]
            /\ \A a \in 1..(Ny - 1) : y_wt[p[a] + 1] <= y_wt[p[a + 1] + 1]}

(***************************************************************************)
(* gauss_kde_dict: argument check, thresholds and selection.               *)
(***************************************************************************)
\* Variant of dict_input_case that tests the raw pair first.
dict_input_case_raw_first(y, y_std, y_idx, y_std_idx) ==
    IF y # None /\ y_std # None THEN "fit"
    ELSE IF y_idx # None /\ y_std_idx # None THEN "pass"
    ELSE "raise"

\* Lines 470-476: which branch of the input check is taken.
dict_input_case(y, y_std, y_idx, y_std_idx) ==
    IF y_idx # None /\ y_std_idx # None THEN "pass"
    ELSE IF y # None /\ y_std # None THEN "fit"
    ELSE "raise"

\* Lines 477-478.
dict_wt_thresh(wt_thresh, cdf_thresh) ==
    IF wt_thresh = None /\ cdf_thresh = None THEN NegInf ELSE wt_thresh

\* Variant of dict_sel_arr whose amplitude test is >= instead of >.
dict_sel_arr_ge(y_wt, wt_thresh, cdf_thresh, idx_sort) ==
    IF wt_thresh # None
    THEN LET thr == FScale(wt_thresh, MaxSeq(y_wt))
         IN  MaskedArange([j \in 1..Len(y_wt) |->
                              ~IsNan(thr) /\ ~FGt(thr, FInt(y_wt[j]))], 0)
    ELSE LET sorted == [j \in 1..Len(y_wt) |-> y_wt[idx_sort[j] + 1]]
             cum    == CumSum(sorted)
             y_cdf  == [j \in 1..Len(cum) |-> Frac(cum[j], cum[Len(cum)])]
             lim    == Frac(cdf_thresh.d - cdf_thresh.n, cdf_thresh.d)
         IN  MaskedSeq(idx_sort, [j \in 1..Len(y_cdf) |-> FLe(y_cdf[j], lim)], 1)

\* Lines 488-496: sel_arr, given the result idx_sort of np.argsort.
dict_sel_arr(y_wt, wt_thresh, cdf_thresh, idx_sort) ==
    IF wt_thresh # None
    THEN LET thr == FScale(wt_thresh, MaxSeq(y_wt))
         IN  MaskedArange([j \in 1..Len(y_wt) |-> FGt(FInt(y_wt[j]), thr)], 0)
    ELSE LET sorted == [j \in 1..Len(y_wt) |-> y_wt[idx_sort[j] + 1]]
             cum    == CumSum(sorted)
             y_cdf  == [j \in 1..Len(cum) |-> Frac(cum[j], cum[Len(cum)])]
             lim    == Frac(cdf_thresh.d - cdf_thresh.n, cdf_thresh.d)
         IN  MaskedSeq(idx_sort, [j \in 1..Len(y_cdf) |-> FLe(y_cdf[j], lim)], 1)

(***************************************************************************)
(* gauss_kde_dict: one pass of the loop body (lines 503-519) for the       *)
(* observation i, on the output array pdf.                                 *)
(***************************************************************************)
\* Variant of dict_norm that drops the lpad = 0 case, so that kcdf[lpad-1]
\* reads kcdf[-1], the last entry.
dict_norm_unguarded(kcdf, lpad, hpad) ==
    PyIndex(kcdf, hpad - 1) - PyIndex(kcdf, lpad - 1)

\* Lines 513-516: the retained mass, read off the kernel's running sum.
dict_norm(kcdf, lpad, hpad) ==
    IF lpad = 0 THEN PyIndex(kcdf, hpad - 1)
    ELSE PyIndex(kcdf, hpad - 1) - PyIndex(kcdf, lpad - 1)

\* Variant of dict_iter that pastes the first high-low kernel samples instead
\* of kernel[lpad : 2*width+1+hpad].
dict_iter_unshifted(self, y_idx, y_std_idx, y_wt, pdf, i) ==
    LET Nx     == self.Ngrid
        idx    == y_std_idx[i + 1]
        pos    == y_idx[i + 1]
        kernel == self.sigma_dict[idx + 1]
        width  == self.sigma_width[idx + 1]
        kcdf   == self.sigma_dict_cdf[idx + 1]
        low    == Max2(pos - width, 0)
        high   == Min2(pos + width + 1, Nx)
        lpad   == low - (pos - width)
        hpad   == high - (pos + width + 1)
        normOk == /\ PyIndexOk(kcdf, hpad - 1)
                  /\ (lpad # 0 => PyIndexOk(kcdf, lpad - 1))
        norm   == dict_norm(kcdf, lpad, hpad)
        coef   == Frac(y_wt[i + 1], norm)
        pasted == PySlice(kernel, 0, Max2(high - low, 0))
        lo     == PyBound(Nx, low)
        hi     == PyBound(Nx, high)
        tlen   == Max2(hi - lo, 0)
        locals == [i |-> i, idx |-> idx, pos |-> pos, width |-> width,
                   low |-> low, high |-> high, lpad |-> lpad, hpad |-> hpad,
                   wt |-> y_wt[i + 1]]
    IN  IF ~normOk
        THEN [exc |-> "IndexError", pdf |-> pdf,
              it |-> locals @@ [norm |-> None, divzero |-> FALSE,
                                pasted |-> None, add |-> None]]
        ELSE IF ~BroadcastOk(tlen, Len(pasted))
        THEN [exc |-> "ValueError", pdf |-> pdf,
              it |-> locals @@ [norm |-> norm, divzero |-> (norm = 0),
                                pasted |-> pasted, add |-> None]]
        ELSE LET add == Broadcast(tlen, [j \in 1..Len(pasted) |->
                                            FScale(coef, pasted[j])])
             IN  [exc |-> NoExc,
                  pdf |-> [c \in 1..Nx |->
                             IF lo < c /\ c <= hi
                             THEN FAdd(pdf[c], add[c - lo]) ELSE pdf[c]],
                  it |-> locals @@ [norm |-> norm, divzero |-> (norm = 0),
                                    pasted |-> pasted, add |-> add]]

\* Lines 503-519.
dict_iter(self, y_idx, y_std_idx, y_wt, pdf, i) ==
    LET Nx     == self.Ngrid
        idx    == y_std_idx[i + 1]
        pos    == y_idx[i + 1]
        kernel == self.sigma_dict[idx + 1]
        width  == self.sigma_width[idx + 1]
        kcdf   == self.sigma_dict_cdf[idx + 1]
        low    == Max2(pos - width, 0)
        high   == Min2(pos + width + 1, Nx)
        lpad   == low - (pos - width)
        hpad   == high - (pos + width + 1)
        normOk == /\ PyIndexOk(kcdf, hpad - 1)
                  /\ (lpad # 0 => PyIndexOk(kcdf, lpad - 1))
        norm   == dict_norm(kcdf, lpad, hpad)
        coef   == Frac(y_wt[i + 1], norm)
        pasted == PySlice(kernel, lpad, 2 * width + 1 + hpad)
        lo     == PyBound(Nx, low)
        hi     == PyBound(Nx, high)
        tlen   == Max2(hi - lo, 0)
        locals == [i |-> i, idx |-> idx, pos |-> pos, width |-> width,
                   low |-> low, high |-> high, lpad |-> lpad, hpad |-> hpad,
                   wt |-> y_wt[i + 1]]
    IN  IF ~normOk
        THEN [exc |-> "IndexError", pdf |-> pdf,
              it |-> locals @@ [norm |-> None, divzero |-> FALSE,
                                pasted |-> None, add |-> None]]
        ELSE IF ~BroadcastOk(tlen, Len(pasted))
        THEN [exc |-> "ValueError", pdf |-> pdf,
              it |-> locals @@ [norm |-> norm, divzero |-> (norm = 0),
                                pasted |-> pasted, add |-> None]]
        ELSE LET add == Broadcast(tlen, [j \in 1..Len(pasted) |->
                                            FScale(coef, pasted[j])])
             IN  [exc |-> NoExc,
                  pdf |-> [c \in 1..Nx |->
                             IF lo < c /\ c <= hi
                             THEN FAdd(pdf[c], add[c - lo]) ELSE pdf[c]],
                  it |-> locals @@ [norm |-> norm, divzero |-> (norm = 0),
                                    pasted |-> pasted, add |-> add]]

(***************************************************************************)
(* gauss_kde: thresholds, window clipping, selection and loop body.        *)
(***************************************************************************)
\* Lines 394-395.
kde_wt_thresh(wt_thresh, cdf_thresh) ==
    IF wt_thresh = None /\ cdf_thresh = None THEN NegInf ELSE wt_thresh

\* Lines 397-401: the clipped window bounds of every observation.
kde_windows(y, y_std, x, dx, sig_thresh) ==
    LET Nx      == Len(x)
        centers == [j \in 1..Len(y) |-> TruncDiv(y[j] - x[1], dx)]
        offsets == [j \in 1..Len(y) |-> TruncDiv(sig_thresh * y_std[j], dx)]
        uppers  == [j \in 1..Len(y) |-> centers[j] + offsets[j]]
        lowers  == [j \in 1..Len(y) |-> centers[j] - offsets[j]]
    IN  [centers |-> centers,
         offsets |-> offsets,
         uppers  |-> [j \in 1..Len(y) |->
                        IF uppers[j] > Nx THEN Nx ELSE uppers[j]],
         lowers  |-> [j \in 1..Len(y) |->
                        IF lowers[j] < 0 THEN 0 ELSE lowers[j]]]

\* Lines 407-415: sel_arr, given the result idx_sort of np.argsort.
kde_sel_arr(y_wt, wt_thresh, cdf_thresh, idx_sort) ==
    IF wt_thresh # None
    THEN LET thr == FScale(wt_thresh, MaxSeq(y_wt))
         IN  MaskedArange([j \in 1..Len(y_wt) |-> FGt(FInt(y_wt[j]), thr)], 0)
    ELSE LET sorted == [j \in 1..Len(y_wt) |-> y_wt[idx_sort[j] + 1]]
             cum    == CumSum(sorted)
             y_cdf  == [j \in 1..Len(cum) |-> Frac(cum[j], cum[Len(cum)])]
             lim    == Frac(cdf_thresh.d - cdf_thresh.n, cdf_thresh.d)
         IN  MaskedSeq(idx_sort, [j \in 1..Len(y_cdf) |-> FLe(y_cdf[j], lim)], 1)

\* Lines 419-423: one pass of the loop body for the observation i.
kde_iter(y, y_std, x, y_wt, lowers, uppers, pdf, i) ==
    LET Nx   == Len(x)
        lo   == PyBound(Nx, lowers[i + 1])
        hi   == PyBound(Nx, uppers[i + 1])
        gkde == gaussian(y[i + 1], y_std[i + 1],
                         PySlice(x, lowers[i + 1], uppers[i + 1]))
        norm == SumSeq(gkde)
        add  == IF norm # 0
                THEN [j \in 1..Len(gkde) |->
                        FScale(Frac(y_wt[i + 1], norm), gkde[j])]
                ELSE None
    IN  [exc |-> NoExc,
         pdf |-> IF norm # 0
                 THEN [c \in 1..Nx |->
                         IF lo < c /\ c <= hi
                         THEN FAdd(pdf[c], add[c - lo]) ELSE pdf[c]]
                 ELSE pdf,
         it  |-> [i |-> i, lower |-> lowers[i + 1], upper |-> uppers[i + 1],
                  lo |-> lo, hi |-> hi, wt |-> y_wt[i + 1], norm |-> norm,
                  divzero |-> FALSE, gkde |-> gkde, add |-> add]]

(***************************************************************************)
(* Inputs.                                                                 *)
(***************************************************************************)
\* Grid spacing and first grid points of the grids handed in.
GridDeltas == {2}

GridStarts == {-4}

\* Evenly spaced grids of 3..MaxNgrid points.
PdfGrids ==
    {[k \in 1..n |-> g0 + d * (k - 1)] :
        n \in 3..MaxNgrid, g0 \in GridStarts, d \in GridDeltas}

SigmaGrids == {<<2, 4>>}

SigmaTruncs == {1, 2}

Weights == {0, 1, 3}

\* wt_thresh and cdf_thresh as the caller passes them.
WtThreshs == {None, [n |-> 1, d |-> 2]}

CdfThreshs == {None, [n |-> 1, d |-> 5000]}

WeightArrays(Ny) == {None} \cup [1..Ny -> Weights]

Ones(Ny) == [j \in 1..Ny |-> 1]

Zeros(Nx) == [c \in 1..Nx |-> FZero]

\* Batches that vary the centres carry the default weights or unequal ones.
StackWeights(Ny) == {None, [j \in 1..Ny |-> IF j % 2 = 1 THEN 3 ELSE 1]}

\* Pre-quantized centres: every cell of the grid and, off either edge, every
\* cell from which the widest kernel still reaches the grid, and two more.
Positions(self) ==
    LET W == MaxSeq(self.sigma_width)
    IN  (-(W + 2))..(self.Ngrid + W)

\* Observed values and errors for the calls that quantize them with fit.
RawValues(grid) == {grid[1] + o : o \in {-7, -1, 3}}
                       \cup {grid[Len(grid)] + o : o \in {5}}

RawSigmas == {1, 7}

\* The four optional arrays of a gauss_kde_dict call: a batch of indices, a
\* batch of raw values, or any mix of given and missing one-element arrays.
DictInputs(self) ==
    UNION {
        [y : {None}, y_std : {None},
         y_idx : [1..Ny -> Positions(self)],
         y_std_idx : [1..Ny -> 0..(self.Ndict - 1)],
         y_wt : StackWeights(Ny)]
        \cup
        [y : [1..Ny -> RawValues(self.grid)], y_std : [1..Ny -> RawSigmas],
         y_idx : {None}, y_std_idx : {None}, y_wt : StackWeights(Ny)]
        : Ny \in 1..MaxNy }
    \cup
    [y : {None, <<self.grid[1]>>}, y_std : {None, <<self.sigma_grid[2]>>},
     y_idx : {None, <<1>>}, y_std_idx : {None, <<0>>}, y_wt : {None}]

\* The arguments of a gauss_kde_dict call.  The calls enumerated either vary
\* the centres and widths of the batch, under the default or unequal weights
\* and no threshold, or vary the weights and the two thresholds of a batch
\* whose kernels all sit whole on grid cell 1.
DictCalls(self) ==
    { [y |-> in.y, y_std |-> in.y_std, y_idx |-> in.y_idx,
       y_std_idx |-> in.y_std_idx, y_wt |-> in.y_wt,
       wt_thresh |-> None, cdf_thresh |-> None] : in \in DictInputs(self) }
    \cup
    UNION {
        [y : {None}, y_std : {None},
         y_idx : {[j \in 1..Ny |-> 1]}, y_std_idx : {[j \in 1..Ny |-> 0]},
         y_wt : WeightArrays(Ny),
         wt_thresh : WtThreshs, cdf_thresh : CdfThreshs]
        : Ny \in 1..MaxNy }

(***************************************************************************)
(* State: the dictionary object and the frame of the current call.         *)
(***************************************************************************)
Idle ==
    [fn |-> "none", pc |-> "idle", exc |-> NoExc, args |-> None,
     loc |-> None, sel_arr |-> None, n |-> 0, pdf |-> None, it |-> None,
     result |-> None]

Init ==
    /\ pdfdict = None
    /\ call = Idle
    /\ other = Idle
    /\ heap = EmptyHeap

\* A call starts when the previous one has been taken off the stack.
NoCall == call.pc = "idle"

\* PDFDict(pdf_grid, sigma_grid, sigma_trunc)
Construct ==
    /\ pdfdict = None
    /\ NoCall
    /\ \E pdf_grid \in PdfGrids, sigma_grid \in SigmaGrids,
          sigma_trunc \in SigmaTruncs :
          pdfdict' = PDFDict_init(pdf_grid, sigma_grid, sigma_trunc)
    /\ UNCHANGED <<call, other, heap>>

\* pdfdict.fit(X, Xe) on one-element arrays.
Fit ==
    /\ pdfdict # None
    /\ NoCall
    /\ \E X \in (pdfdict.grid[1] - FitPad)
                    ..(pdfdict.grid[pdfdict.Ngrid] + FitPad),
          Xe \in 0..(pdfdict.sigma_grid[pdfdict.Ndict] + FitPad) :
          call' = [Idle EXCEPT !.fn = "fit", !.pc = "returned",
                               !.args = [X |-> <<X>>, Xe |-> <<Xe>>],
                               !.result = fit(pdfdict, <<X>>, <<Xe>>)]
    /\ UNCHANGED <<pdfdict, other, heap>>

\* gauss_kde_dict, lines 469-501: the frames a call with these arguments can
\* be in at the head of its loop (one for every result of np.argsort), or
\* the frame that has raised.
DictEntries(self, args) ==
    LET case == dict_input_case(args.y, args.y_std, args.y_idx,
                                args.y_std_idx)
        fitted == fit(self, args.y, args.y_std)
        y_idx == IF case = "fit" THEN fitted.X_idx ELSE args.y_idx
        y_std_idx == IF case = "fit" THEN fitted.Xe_idx ELSE args.y_std_idx
        wt == dict_wt_thresh(args.wt_thresh, args.cdf_thresh)
        y_wt == IF args.y_wt = None THEN Ones(Len(y_idx)) ELSE args.y_wt
    IN  IF case = "raise"
        THEN {[Idle EXCEPT !.fn = "gauss_kde_dict", !.pc = "raised",
                           !.exc = "ValueError", !.args = args]}
        ELSE {[Idle EXCEPT
                 !.fn = "gauss_kde_dict",
                 !.pc = "loop",
                 !.args = args,
                 !.loc = [fit_called |-> (case = "fit"),
                          y_idx |-> y_idx, y_std_idx |-> y_std_idx,
                          y_wt |-> y_wt, wt_thresh |-> wt,
                          idx_sort |-> idx_sort],
                 !.sel_arr = dict_sel_arr(y_wt, wt, args.cdf_thresh, idx_sort),
                 !.pdf = Zeros(self.Ngrid)]
              : idx_sort \in (IF wt = None THEN ArgSorts(y_wt) ELSE {None})}

\* gauss_kde_dict, lines 502-519: the frame after the loop body has run for
\* the next selected index.
DictStep(self, f) ==
    LET r == dict_iter(self, f.loc.y_idx, f.loc.y_std_idx, f.loc.y_wt,
                       f.pdf, f.sel_arr[f.n + 1])
    IN  [f EXCEPT !.n = @ + 1, !.pdf = r.pdf, !.it = r.it, !.exc = r.exc,
                  !.pc = IF r.exc = NoExc THEN "loop" ELSE "raised"]

\* gauss_kde_dict, line 521: the frame after the return.
DictReturn(f) == [f EXCEPT !.pc = "returned", !.result = f.pdf]

\* gauss_kde_dict, lines 469-501: from the call to the head of the loop.
GaussKdeDictCall ==
    /\ pdfdict # None
    /\ NoCall
    /\ \E args \in DictCalls(pdfdict) :
        \E f \in DictEntries(pdfdict, args) : call' = f
    /\ UNCHANGED <<pdfdict, other, heap>>

\* gauss_kde_dict, lines 502-519: the loop body for the next selected index.
GaussKdeDictIter ==
    /\ call.fn = "gauss_kde_dict"
    /\ call.pc = "loop"
    /\ call.n < Len(call.sel_arr)
    /\ call' = DictStep(pdfdict, call)
    /\ UNCHANGED <<pdfdict, other, heap>>

\* gauss_kde_dict, line 521.
GaussKdeDictReturn ==
    /\ call.fn = "gauss_kde_dict"
    /\ call.pc = "loop"
    /\ call.n = Len(call.sel_arr)
    /\ call' = DictReturn(call)
    /\ UNCHANGED <<pdfdict, other, heap>>

\* Observed values and errors handed to gauss_kde on the grid x.
KdeValues(x) == {x[1] + o : o \in {-7, -3, -1, 2}}
                    \cup {x[Len(x)] + o : o \in {0, 5}}

KdeSigmas == {1, 3, 4}

SigThreshs == {1}

\* The arguments of a gauss_kde call (dx is left to its default).  As for
\* gauss_kde_dict, the calls either vary the values and errors of the batch
\* or vary its weights and thresholds, the kernels then centred on x[1].
KdeCalls ==
    UNION {
        [y : [1..Ny -> KdeValues(x)], y_std : [1..Ny -> KdeSigmas],
         x : {x}, dx : {None}, y_wt : StackWeights(Ny),
         sig_thresh : SigThreshs, wt_thresh : {None}, cdf_thresh : {None}]
        \cup
        [y : {[j \in 1..Ny |-> x[2]]}, y_std : {[j \in 1..Ny |-> 3]},
         x : {x}, dx : {None}, y_wt : WeightArrays(Ny),
         sig_thresh : SigThreshs, wt_thresh : WtThreshs,
         cdf_thresh : CdfThreshs]
        : x \in PdfGrids, Ny \in 1..MaxNy }

\* gauss_kde, lines 388-415: from the call to the head of the loop.  The
\* direct estimator is the one used while no dictionary has been built.
GaussKdeCall ==
    /\ pdfdict = None
    /\ NoCall
    /\ \E args \in KdeCalls :
          LET y == args.y
              y_std == args.y_std
              x == args.x
              Ny == Len(y)
              y_wt_in == args.y_wt
              sig_thresh == args.sig_thresh
              wt_thresh == args.wt_thresh
              cdf_thresh == args.cdf_thresh
              dx   == x[2] - x[1]
              y_wt == IF y_wt_in = None THEN Ones(Ny) ELSE y_wt_in
              wt   == kde_wt_thresh(wt_thresh, cdf_thresh)
              win  == kde_windows(y, y_std, x, dx, sig_thresh)
          IN  \E idx_sort \in (IF wt = None THEN ArgSorts(y_wt)
                               ELSE {None}) :
                call' = [Idle EXCEPT
                   !.fn = "gauss_kde",
                   !.pc = "loop",
                   !.args = args,
                   !.loc = [dx |-> dx, y_wt |-> y_wt, wt_thresh |-> wt,
                            centers |-> win.centers,
                            offsets |-> win.offsets,
                            lowers |-> win.lowers, uppers |-> win.uppers,
                            idx_sort |-> idx_sort],
                   !.sel_arr = kde_sel_arr(y_wt, wt, cdf_thresh, idx_sort),
                   !.pdf = Zeros(Len(x))]
    /\ UNCHANGED <<pdfdict, other, heap>>

\* gauss_kde, lines 418-423: the loop body for the next selected index.
GaussKdeIter ==
    /\ call.fn = "gauss_kde"
    /\ call.pc = "loop"
    /\ call.n < Len(call.sel_arr)
    /\ LET r == kde_iter(call.args.y, call.args.y_std, call.args.x,
                         call.loc.y_wt, call.loc.lowers, call.loc.uppers,
                         call.pdf, call.sel_arr[call.n + 1])
       IN  call' = [call EXCEPT !.n = @ + 1, !.pdf = r.pdf, !.it = r.it]
    /\ UNCHANGED <<pdfdict, other, heap>>

\* gauss_kde, line 425.
GaussKdeReturn ==
    /\ call.fn = "gauss_kde"
    /\ call.pc = "loop"
    /\ call.n = Len(call.sel_arr)
    /\ call' = [call EXCEPT !.pc = "returned", !.result = call.pdf]
    /\ UNCHANGED <<pdfdict, other, heap>>

\* The caller takes the result (or the exception) of the finished call.
Finish ==
    /\ call.pc \in {"returned", "raised"}
    /\ call' = Idle
    /\ UNCHANGED <<pdfdict, other, heap>>

Next ==
    \/ Construct
    \/ Fit
    \/ GaussKdeDictCall
    \/ GaussKdeDictIter
    \/ GaussKdeDictReturn
    \/ GaussKdeCall
    \/ GaussKdeIter
    \/ GaussKdeReturn
    \/ Finish

Spec == Init /\ [][Next]_vars

(***************************************************************************)
(* Two callers sharing one dictionary.  Each runs calls of its own, one    *)
(* statement at a time, and the statements of the two interleave freely.   *)
(* Local names belong to the frame that binds them; the arrays they name   *)
(* are reached through references: <<"dict", field, k>> is an array held   *)
(* by the dictionary (the k-th of a list of arrays, k = 0 for a field that *)
(* is one array) and <<"heap", who, k>> is the k-th live array created on  *)
(* behalf of caller who.  Temporaries that one statement creates and the   *)
(* same call only reads are kept by value in the frame.                    *)
(***************************************************************************)
Callers == {1, 2}

Mine(w) == IF w = 1 THEN call ELSE other

Peer(w) == IF w = 1 THEN other ELSE call

Who(w) == IF w = 1 THEN "call" ELSE "other"

\* Caller w's frame becomes mine, the other caller's frame becomes peer.
Put(w, mine, peer) ==
    IF w = 1 THEN call' = mine /\ other' = peer
    ELSE other' = mine /\ call' = peer

\* The memory the statements act on: the dictionary and the heap.
Mem == [dict |-> pdfdict, heap |-> heap]

DictRef(field, k) == <<"dict", field, k>>

\* The array a reference names.
Load(m, ref) ==
    IF ref[1] = "dict"
    THEN IF ref[3] = 0 THEN m.dict[ref[2]] ELSE m.dict[ref[2]][ref[3]]
    ELSE m.heap[ref]

\* The memory after the array a reference names has been overwritten in
\* place with arr.
Store(m, ref, arr) ==
    IF ref[1] = "dict"
    THEN IF ref[3] = 0 THEN [m EXCEPT !.dict[ref[2]] = arr]
         ELSE [m EXCEPT !.dict[ref[2]][ref[3]] = arr]
    ELSE [m EXCEPT !.heap[ref] = arr]

\* The memory with the array arr also in it, under the reference ref.
Bind(m, ref, arr) ==
    [ref |-> ref,
     mem |-> [m EXCEPT !.heap = [x \in (DOMAIN m.heap) \cup {ref} |->
                                    IF x = ref THEN arr ELSE m.heap[x]]]]

\* A reference no live array has.
FreshRef(h, who) ==
    <<"heap", who,
      CHOOSE k \in 1..(Cardinality(DOMAIN h) + 1) :
          /\ <<"heap", who, k>> \notin DOMAIN h
          /\ \A j \in 1..(k - 1) : <<"heap", who, j>> \in DOMAIN h>>

\* A new array (the result of np.array, np.ones, np.cumsum, .astype, ...).
New(m, who, arr) == Bind(m, FreshRef(m.heap, who), arr)

\* An array the caller passes in, or None.
Pass(m, who, arr) ==
    IF arr = None THEN [ref |-> None, mem |-> m] ELSE New(m, who, arr)

\* Variant of np_zeros that hands out one buffer kept between calls, zeroed
\* again at every call.
np_zeros_cached(m, who, n) ==
    Bind(m, <<"heap", "cache", 1>>, [c \in 1..n |-> FZero])

\* np.zeros(n): a new array of n zeros.
np_zeros(m, who, n) == New(m, who, [c \in 1..n |-> FZero])

\* The memory once caller who has dropped every array created on its behalf.
Release(m, who) ==
    [m EXCEPT !.heap = [x \in {r \in DOMAIN m.heap : r[2] # who} |->
                           m.heap[x]]]

\* The local names of a frame, before any is bound.  The field in keeps the
\* references the caller passed, whatever the call rebinds.
Locals ==
    [in |-> None, y |-> None, y_std |-> None, y_idx |-> None,
     y_std_idx |-> None, y_wt |-> None, wt_thresh |-> None,
     cdf_thresh |-> None, ret |-> "caller", X |-> None, Xe |-> None,
     X_idx |-> None, Xe_idx |-> None, Nx |-> 0, Ny |-> 0,
     idx_sort |-> None, y_cdf |-> None, i |-> 0, idx |-> 0, pos |-> 0,
     kernel |-> None, width |-> 0, kcdf |-> None, low |-> 0, high |-> 0,
     lpad |-> 0, hpad |-> 0, norm |-> 0, temp |-> None]

\* The outcome of a statement that touches no array.
Local(m, f) == [mem |-> m, frame |-> f]

\* PDFDict.fit, lines 743-751, the statement at f.pc.  The call is the
\* caller's own (ret = "caller") or the one gauss_kde_dict makes at line 473.
fit_stmt(m, who, f) ==
    LET L    == f.loc
        self == m.dict
    IN  CASE f.pc = "743" ->
               LET X == Load(m, L.X)
                   o == New(m, who,
                            [j \in 1..Len(X) |-> fit_X_idx(self, X[j])])
               IN  [mem |-> o.mem,
                    frame |-> [f EXCEPT !.loc.X_idx = o.ref, !.pc = "746"]]
          [] f.pc = "746" ->
               LET Xe == Load(m, L.Xe)
                   o  == New(m, who,
                             [j \in 1..Len(Xe) |->
                                RoundHalfEven(Xe[j] - self.sigma_grid[1],
                                              self.dsigma)])
               IN  [mem |-> o.mem,
                    frame |-> [f EXCEPT !.loc.Xe_idx = o.ref, !.pc = "748"]]
          [] f.pc = "748" ->
               LET a == Load(m, L.Xe_idx)
               IN  [mem |-> Store(m, L.Xe_idx,
                                  [j \in 1..Len(a) |->
                                     IF a[j] >= self.Ndict
                                     THEN self.Ndict - 1 ELSE a[j]]),
                    frame |-> [f EXCEPT !.pc = "749"]]
          [] f.pc = "749" ->
               LET a == Load(m, L.Xe_idx)
               IN  [mem |-> Store(m, L.Xe_idx,
                                  [j \in 1..Len(a) |->
                                     IF a[j] < 0 THEN 0 ELSE a[j]]),
                    frame |-> [f EXCEPT !.pc = "751"]]
          [] f.pc = "751" ->
               IF L.ret = "dict"
               THEN Local(m, [f EXCEPT
                        !.loc.y_idx = L.X_idx,
                        !.loc.y_std_idx = L.Xe_idx,
                        !.loc.wt_thresh =
                            dict_wt_thresh(L.wt_thresh, L.cdf_thresh),
                        !.pc = "482"])
               ELSE Local(m, [f EXCEPT !.pc = "returned",
                                       !.result = <<L.X_idx, L.Xe_idx>>])

\* gauss_kde_dict, lines 470-478.
dict_470(m, who, f) ==
    LET L    == f.loc
        case == dict_input_case(L.y, L.y_std, L.y_idx, L.y_std_idx)
    IN  IF case = "raise"
        THEN Local(m, [f EXCEPT !.pc = "raised", !.exc = "ValueError"])
        ELSE IF case = "fit"
        THEN Local(m, [f EXCEPT !.loc.X = L.y, !.loc.Xe = L.y_std,
                                !.loc.ret = "dict", !.pc = "743"])
        ELSE Local(m, [f EXCEPT
                  !.loc.wt_thresh = dict_wt_thresh(L.wt_thresh, L.cdf_thresh),
                  !.pc = "482"])

\* Lines 481-482.
dict_482(m, who, f) ==
    LET o == np_zeros(m, who, m.dict.Ngrid)
    IN  [mem |-> o.mem,
         frame |-> [f EXCEPT !.loc.Nx = m.dict.Ngrid, !.pdf = o.ref,
                             !.pc = "487"]]

\* Lines 485-488.
dict_487(m, who, f) ==
    LET L  == f.loc
        Ny == Len(Load(m, L.y_idx))
        o  == IF L.y_wt = None THEN New(m, who, Ones(Ny))
              ELSE [ref |-> L.y_wt, mem |-> m]
    IN  [mem |-> o.mem,
         frame |-> [f EXCEPT !.loc.Ny = Ny, !.loc.y_wt = o.ref,
                             !.pc = IF L.wt_thresh # None THEN "490"
                                    ELSE "493"]]

\* Lines 490-496, the statement at f.pc: the outcomes it can have (line 493
\* has one for every result of np.argsort).
dict_select(m, who, f) ==
    LET L    == f.loc
        y_wt == Load(m, L.y_wt)
    IN  CASE f.pc = "490" ->
               {Local(m, [f EXCEPT
                   !.sel_arr = dict_sel_arr(y_wt, L.wt_thresh, L.cdf_thresh,
                                            None),
                   !.pc = "502"])}
          [] f.pc = "493" ->
               {Local(m, [f EXCEPT !.loc.idx_sort = idx_sort, !.pc = "494"])
                  : idx_sort \in ArgSorts(y_wt)}
          [] f.pc = "494" ->
               LET o == New(m, who,
                            CumSum([j \in 1..Len(y_wt) |->
                                      y_wt[L.idx_sort[j] + 1]]))
               IN  {[mem |-> o.mem,
                     frame |-> [f EXCEPT !.loc.y_cdf = o.ref, !.pc = "495"]]}
          [] f.pc = "495" ->
               LET c == Load(m, L.y_cdf)
               IN  {[mem |-> Store(m, L.y_cdf,
                                   [j \in 1..Len(c) |->
                                      Frac(c[j], c[Len(c)])]),
                     frame |-> [f EXCEPT !.pc = "496"]]}
          [] f.pc = "496" ->
               LET c   == Load(m, L.y_cdf)
                   lim == Frac(L.cdf_thresh.d - L.cdf_thresh.n,
                               L.cdf_thresh.d)
               IN  {Local(m, [f EXCEPT
                       !.sel_arr = MaskedSeq(L.idx_sort,
                                             [j \in 1..Len(c) |->
                                                FLe(c[j], lim)], 1),
                       !.pc = "502"])}

\* Line 502: the next selected index, or the end of the loop.
dict_502(m, who, f) ==
    IF f.n < Len(f.sel_arr)
    THEN Local(m, [f EXCEPT !.loc.i = f.sel_arr[f.n + 1], !.pc = "504"])
    ELSE Local(m, [f EXCEPT !.pc = "521"])

\* Lines 504-505.
dict_504(m, who, f) ==
    LET L == f.loc
    IN  Local(m, [f EXCEPT !.loc.idx = Load(m, L.y_std_idx)[L.i + 1],
                           !.loc.pos = Load(m, L.y_idx)[L.i + 1],
                           !.pc = "506"])

\* Lines 506-512.
dict_506(m, who, f) ==
    LET L     == f.loc
        width == Load(m, DictRef("sigma_width", 0))[L.idx + 1]
        low   == Max2(L.pos - width, 0)
        high  == Min2(L.pos + width + 1, L.Nx)
    IN  Local(m, [f EXCEPT !.loc.kernel = DictRef("sigma_dict", L.idx + 1),
                           !.loc.width = width,
                           !.loc.kcdf = DictRef("sigma_dict_cdf", L.idx + 1),
                           !.loc.low = low,
                           !.loc.high = high,
                           !.loc.lpad = low - (L.pos - width),
                           !.loc.hpad = high - (L.pos + width + 1),
                           !.pc = "513"])

\* Lines 513-516.
dict_513(m, who, f) ==
    LET L    == f.loc
        kcdf == Load(m, L.kcdf)
    IN  IF /\ PyIndexOk(kcdf, L.hpad - 1)
           /\ (L.lpad # 0 => PyIndexOk(kcdf, L.lpad - 1))
        THEN Local(m, [f EXCEPT !.loc.norm = dict_norm(kcdf, L.lpad, L.hpad),
                                !.pc = "519"])
        ELSE Local(m, [f EXCEPT !.pc = "raised", !.exc = "IndexError"])

\* Line 519, the right-hand side: a new array, the product of a number and
\* a view of the kernel.
dict_519(m, who, f) ==
    LET L      == f.loc
        coef   == Frac(Load(m, L.y_wt)[L.i + 1], L.norm)
        pasted == PySlice(Load(m, L.kernel), L.lpad,
                          2 * L.width + 1 + L.hpad)
    IN  Local(m, [f EXCEPT
              !.loc.temp = [j \in 1..Len(pasted) |-> FScale(coef, pasted[j])],
              !.pc = "519+"])

\* Line 519, the in-place addition into the view pdf[low:high] (the
\* assignment that follows it stores that view onto itself).
dict_519_store(m, who, f) ==
    LET L    == f.loc
        pdf  == Load(m, f.pdf)
        lo   == PyBound(L.Nx, L.low)
        hi   == PyBound(L.Nx, L.high)
        tlen == Max2(hi - lo, 0)
        add  == Broadcast(tlen, L.temp)
    IN  IF ~BroadcastOk(tlen, Len(L.temp))
        THEN Local(m, [f EXCEPT !.pc = "raised", !.exc = "ValueError"])
        ELSE [mem |-> Store(m, f.pdf,
                            [c \in 1..Len(pdf) |->
                               IF lo < c /\ c <= hi
                               THEN FAdd(pdf[c], add[c - lo]) ELSE pdf[c]]),
              frame |-> [f EXCEPT !.n = @ + 1, !.loc.temp = None,
                                  !.pc = "502"]]

\* Line 521.
dict_521(m, who, f) ==
    Local(m, [f EXCEPT !.pc = "returned", !.result = f.pdf])

\* The calls the two callers make: two-observation batches at either edge of
\* the grid, pre-quantized under the default weights and no threshold, or
\* under given weights and the CDF threshold, or raw.
SharedCalls(self) ==
    [y : {None}, y_std : {None},
     y_idx : [1..2 -> {0, self.Ngrid - 1}],
     y_std_idx : {<<0, 1>>, <<1, 0>>},
     y_wt : {None}, wt_thresh : {None}, cdf_thresh : {None}]
    \cup
    [y : {None}, y_std : {None},
     y_idx : {<<0, self.Ngrid - 1>>}, y_std_idx : {<<0, 1>>},
     y_wt : {<<3, 1>>, <<1, 1>>}, wt_thresh : {None},
     cdf_thresh : CdfThreshs \ {None}]
    \cup
    [y : {<<self.grid[1], self.grid[2]>>},
     y_std : {<<self.sigma_grid[1], self.sigma_grid[2]>>},
     y_idx : {None}, y_std_idx : {None},
     y_wt : {<<3, 1>>}, wt_thresh : {None}, cdf_thresh : {None}]

\* The step of caller w has the outcome o.
Commit(w, o) ==
    /\ Put(w, o.frame, Peer(w))
    /\ pdfdict' = o.mem.dict
    /\ heap' = o.mem.heap

\* Caller w is at one of these statements of fn.
At(w, fn, pcs) == Mine(w).fn = fn /\ Mine(w).pc \in pcs

\* A caller calls gauss_kde_dict on arrays of its own.
SharedDictCall ==
    /\ pdfdict # None
    /\ \E w \in Callers :
        /\ Mine(w).pc = "idle"
        /\ \E args \in SharedCalls(pdfdict) :
            LET a1 == Pass(Mem, Who(w), args.y)
                a2 == Pass(a1.mem, Who(w), args.y_std)
                a3 == Pass(a2.mem, Who(w), args.y_idx)
                a4 == Pass(a3.mem, Who(w), args.y_std_idx)
                a5 == Pass(a4.mem, Who(w), args.y_wt)
                in == [y |-> a1.ref, y_std |-> a2.ref, y_idx |-> a3.ref,
                       y_std_idx |-> a4.ref, y_wt |-> a5.ref]
            IN  Commit(w, [mem |-> a5.mem,
                           frame |-> [Idle EXCEPT
                              !.fn = "gauss_kde_dict",
                              !.pc = "470",
                              !.args = args,
                              !.loc = [Locals EXCEPT
                                 !.in = in, !.y = in.y, !.y_std = in.y_std,
                                 !.y_idx = in.y_idx,
                                 !.y_std_idx = in.y_std_idx,
                                 !.y_wt = in.y_wt,
                                 !.wt_thresh = args.wt_thresh,
                                 !.cdf_thresh = args.cdf_thresh]]])

\* A caller calls pdfdict.fit on one-element arrays of its own, on and off
\* the two grids.
SharedFitCall ==
    /\ pdfdict # None
    /\ \E w \in Callers :
        /\ Mine(w).pc = "idle"
        /\ \E X \in {pdfdict.grid[1], pdfdict.grid[pdfdict.Ngrid] + FitPad},
              Xe \in {pdfdict.sigma_grid[1],
                      pdfdict.sigma_grid[pdfdict.Ndict] + FitPad} :
            LET a1 == Pass(Mem, Who(w), <<X>>)
                a2 == Pass(a1.mem, Who(w), <<Xe>>)
                in == [X |-> a1.ref, Xe |-> a2.ref]
            IN  Commit(w, [mem |-> a2.mem,
                           frame |-> [Idle EXCEPT
                              !.fn = "fit",
                              !.pc = "743",
                              !.args = [X |-> <<X>>, Xe |-> <<Xe>>],
                              !.loc = [Locals EXCEPT
                                 !.in = in, !.X = in.X, !.Xe = in.Xe]]])

SharedFitStmt ==
    \E w \in Callers :
        /\ Mine(w).fn \in {"fit", "gauss_kde_dict"}
        /\ Mine(w).pc \in {"743", "746", "748", "749", "751"}
        /\ Commit(w, fit_stmt(Mem, Who(w), Mine(w)))

SharedEnter ==
    \E w \in Callers :
        /\ At(w, "gauss_kde_dict", {"470"})
        /\ Commit(w, dict_470(Mem, Who(w), Mine(w)))

SharedZeros ==
    \E w \in Callers :
        /\ At(w, "gauss_kde_dict", {"482"})
        /\ Commit(w, dict_482(Mem, Who(w), Mine(w)))

SharedWeights ==
    \E w \in Callers :
        /\ At(w, "gauss_kde_dict", {"487"})
        /\ Commit(w, dict_487(Mem, Who(w), Mine(w)))

SharedSelect ==
    \E w \in Callers :
        /\ At(w, "gauss_kde_dict", {"490", "493", "494", "495", "496"})
        /\ \E o \in dict_select(Mem, Who(w), Mine(w)) : Commit(w, o)

SharedFor ==
    \E w \in Callers :
        /\ At(w, "gauss_kde_dict", {"502"})
        /\ Commit(w, dict_502(Mem, Who(w), Mine(w)))

SharedPick ==
    \E w \in Callers :
        /\ At(w, "gauss_kde_dict", {"504"})
        /\ Commit(w, dict_504(Mem, Who(w), Mine(w)))

SharedKernel ==
    \E w \in Callers :
        /\ At(w, "gauss_kde_dict", {"506"})
        /\ Commit(w, dict_506(Mem, Who(w), Mine(w)))

SharedNorm ==
    \E w \in Callers :
        /\ At(w, "gauss_kde_dict", {"513"})
        /\ Commit(w, dict_513(Mem, Who(w), Mine(w)))

SharedScale ==
    \E w \in Callers :
        /\ At(w, "gauss_kde_dict", {"519"})
        /\ Commit(w, dict_519(Mem, Who(w), Mine(w)))

SharedAdd ==
    \E w \in Callers :
        /\ At(w, "gauss_kde_dict", {"519+"})
        /\ Commit(w, dict_519_store(Mem, Who(w), Mine(w)))

SharedReturn ==
    \E w \in Callers :
        /\ At(w, "gauss_kde_dict", {"521"})
        /\ Commit(w, dict_521(Mem, Who(w), Mine(w)))

\* The caller takes the result (or the exception) and drops its arrays.
SharedFinish ==
    \E w \in Callers :
        /\ Mine(w).pc \in {"returned", "raised"}
        /\ Commit(w, [mem |-> Release(Mem, Who(w)), frame |-> Idle])

NextShared ==
    \/ Construct
    \/ SharedDictCall
    \/ SharedFitCall
    \/ SharedFitStmt
    \/ SharedEnter
    \/ SharedZeros
    \/ SharedWeights
    \/ SharedSelect
    \/ SharedFor
    \/ SharedPick
    \/ SharedKernel
    \/ SharedNorm
    \/ SharedScale
    \/ SharedAdd
    \/ SharedReturn
    \/ SharedFinish

SpecShared == Init /\ [][NextShared]_vars

(***************************************************************************)
(* Properties.                                                             *)
(***************************************************************************)
\* The last pass of the gauss_kde_dict loop body is recorded in call.it.
DictIterated == call.fn = "gauss_kde_dict" /\ call.it # None

\* That pass got as far as computing norm.
DictNormed == DictIterated /\ call.exc # "IndexError"

\* The selection of the current call has been made.
Selected == call.fn \in {"gauss_kde_dict", "gauss_kde"} /\ call.loc # None

\* The array the last pass added to pdf[low:high] leaves the output as it was.
AddsNothing(it) == it.add # None => \A j \in 1..Len(it.add) : it.add[j] = FZero

AllIndices(Ny) == [j \in 1..Ny |-> j - 1]

\* C1: an observation whose whole window [pos-width, pos+width] lies on the
\* grid (lpad = 0, hpad = 0) is pasted without error, norm is the sum of the
\* whole kernel, all 2*width+1 samples of it are pasted, and the values
\* added to the output sum to the observation's weight.
C1_MassPreservedUnclipped ==
    (DictIterated /\ call.it.lpad = 0 /\ call.it.hpad = 0) =>
        /\ call.exc = NoExc
        /\ call.it.pasted = pdfdict.sigma_dict[call.it.idx + 1]
        /\ Len(call.it.pasted) = 2 * call.it.width + 1
        /\ call.it.norm = SumSeq(call.it.pasted)
        /\ Len(call.it.add) = call.it.high - call.it.low
        /\ FSum(call.it.add) = FInt(call.it.wt)

C1_Witness ==
    /\ DictIterated
    /\ call.it.lpad = 0 /\ call.it.hpad = 0
    /\ call.it.wt = 3
    /\ call.it.width = 2
    /\ FSum(call.it.add) = FInt(3)

\* C2: an observation whose window is clipped on either side but still
\* overlaps the grid (low < high) is pasted without error, norm is the sum
\* of the pasted sub-slice, and the values added sum to its weight.
C2_MassPreservedClipped ==
    (DictIterated /\ (call.it.lpad > 0 \/ call.it.hpad < 0)
                  /\ call.it.low < call.it.high) =>
        /\ call.exc = NoExc
        /\ call.it.norm = SumSeq(call.it.pasted)
        /\ FSum(call.it.add) = FInt(call.it.wt)

\* C2 restricted to kernels that __init__ built with all 2*width+1 samples:
\* there the renormalisation is exact in both branches (hpad = 0, hpad < 0).
C2_OnFullKernels ==
    (DictIterated /\ (call.it.lpad > 0 \/ call.it.hpad < 0)
                  /\ call.it.low < call.it.high
                  /\ Len(pdfdict.sigma_dict[call.it.idx + 1])
                        = 2 * call.it.width + 1) =>
        /\ call.exc = NoExc
        /\ call.it.norm = SumSeq(call.it.pasted)
        /\ Len(call.it.add) = call.it.high - call.it.low
        /\ FSum(call.it.add) = FInt(call.it.wt)

\* C3: an observation whose clipped window is empty (low >= high) raises
\* nothing and adds nothing to the output.
C3_DegenerateSkipped ==
    (DictIterated /\ call.it.low >= call.it.high) =>
        /\ call.exc = NoExc
        /\ AddsNothing(call.it)

\* C4: with wt_thresh = None and a small positive cdf_thresh, an observation
\* of the largest weight is among those selected.
C4_DominantKept ==
    (Selected /\ call.args.wt_thresh = None /\ call.args.cdf_thresh # None) =>
        \E j \in Range(call.sel_arr) :
            call.loc.y_wt[j + 1] = MaxSeq(call.loc.y_wt)

\* C5: with wt_thresh given (whatever cdf_thresh is), sel_arr lists, once
\* each and in ascending order, exactly the observations j with
\* y_wt[j] > wt_thresh * max(y_wt).
C5_AmplitudeSelection ==
    (Selected /\ call.args.wt_thresh # None) =>
        LET t  == call.args.wt_thresh
            w  == call.loc.y_wt
            mx == MaxSeq(w)
        IN  /\ \A a \in 1..(Len(call.sel_arr) - 1) :
                  call.sel_arr[a] < call.sel_arr[a + 1]
            /\ Range(call.sel_arr) =
                  {j \in 0..(Len(w) - 1) : w[j + 1] * t.d > t.n * mx}

C5_Witness ==
    /\ Selected
    /\ call.fn = "gauss_kde_dict"
    /\ call.args.wt_thresh = [n |-> 1, d |-> 2]
    /\ call.args.cdf_thresh # None
    /\ call.loc.y_wt = <<1, 3>>
    /\ call.sel_arr = <<1>>

\* C6: with wt_thresh = None and cdf_thresh = None every observation of the
\* batch is selected.
C6_NoThresholdSelectsAll ==
    (Selected /\ call.args.wt_thresh = None /\ call.args.cdf_thresh = None) =>
        call.sel_arr = AllIndices(Len(call.loc.y_wt))

\* C7: a dictionary that has been constructed holds, for every sigma bucket,
\* a kernel of 2*width+1 samples (a grid too small for that is refused).
C7_KernelsComplete ==
    pdfdict # None =>
        \A i \in 1..pdfdict.Ndict :
            Len(pdfdict.sigma_dict[i]) = 2 * pdfdict.sigma_width[i] + 1

\* C8: when the retained mass norm of an observation is 0, no division by
\* zero is evaluated, nothing is raised and nothing is added to the output.
C8_ZeroMassGuarded ==
    (DictNormed /\ call.it.norm = 0) =>
        /\ ~call.it.divzero
        /\ call.exc = NoExc
        /\ AddsNothing(call.it)

\* C9: a gauss_kde_dict call with neither pair complete raises ValueError
\* with no selection made, no output allocated and no loop pass run; a call
\* with both pairs complete uses the indices passed in and does not call fit.
C9_MissingInput ==
    call.fn = "gauss_kde_dict" =>
        LET a       == call.args
            idxPair == a.y_idx # None /\ a.y_std_idx # None
            rawPair == a.y # None /\ a.y_std # None
        IN  /\ (~idxPair /\ ~rawPair) =>
                  /\ call.pc = "raised"
                  /\ call.exc = "ValueError"
                  /\ call.loc = None
                  /\ call.pdf = None
                  /\ call.it = None
                  /\ call.n = 0
            /\ (idxPair /\ rawPair) =>
                  /\ call.loc # None
                  /\ ~call.loc.fit_called
                  /\ call.loc.y_idx = a.y_idx
                  /\ call.loc.y_std_idx = a.y_std_idx

C9_Witness ==
    /\ call.fn = "gauss_kde_dict"
    /\ call.args.y # None /\ call.args.y_std = None
    /\ call.args.y_idx = None /\ call.args.y_std_idx # None
    /\ call.exc = "ValueError"

\* The integer nearest to n / d (d > 0), the even one of the two when n / d
\* lies halfway between them.
Nearest(n, d) ==
    CHOOSE r \in (-(Abs(n) + 1))..(Abs(n) + 1) :
        /\ Abs(2 * n - 2 * r * d) <= d
        /\ Abs(2 * n - 2 * r * d) = d => r % 2 = 0

\* C10 as stated: fit returns a dict_index in [0, Ndict-1], equal to the
\* rounded (sigma - sigma_grid[0]) / dsigma clamped to that range, and a
\* grid_index equal to the rounded (value - grid[0]) / delta, not clamped, so
\* that every value outside the grid gets an index outside [0, Ngrid).
C10_OutsideIsOutOfRange ==
    call.fn = "fit" =>
        LET X  == call.args.X[1]
            Xe == call.args.Xe[1]
            xi == call.result.X_idx[1]
            ei == call.result.Xe_idx[1]
            r  == Nearest(Xe - pdfdict.sigma_grid[1], pdfdict.dsigma)
        IN  /\ ei \in 0..(pdfdict.Ndict - 1)
            /\ ei = Max2(0, Min2(pdfdict.Ndict - 1, r))
            /\ xi = Nearest(X - pdfdict.grid[1], pdfdict.delta)
            /\ X < pdfdict.grid[1] => xi < 0
            /\ X > pdfdict.grid[pdfdict.Ngrid] => xi >= pdfdict.Ngrid

\* C10, corrected: the dict_index is as stated; the grid_index is the rounded
\* (value - grid[0]) / delta, not clamped, and it is outside [0, Ngrid) when
\* the value is more than half a cell outside the grid.  A value outside
\* the grid by at most half a cell gets the index of the nearest end of the
\* grid (below: 0; above: Ngrid-1, but Ngrid at exactly half a cell when
\* Ngrid-1 is odd, by rounding half to even).
C10_QuantizerClamping ==
    call.fn = "fit" =>
        LET X    == call.args.X[1]
            Xe   == call.args.Xe[1]
            xi   == call.result.X_idx[1]
            ei   == call.result.Xe_idx[1]
            r    == Nearest(Xe - pdfdict.sigma_grid[1], pdfdict.dsigma)
            N    == pdfdict.Ngrid
            under == pdfdict.grid[1] - X
            over  == X - pdfdict.grid[N]
        IN  /\ ei \in 0..(pdfdict.Ndict - 1)
            /\ ei = Max2(0, Min2(pdfdict.Ndict - 1, r))
            /\ xi = Nearest(X - pdfdict.grid[1], pdfdict.delta)
            /\ 2 * under > pdfdict.delta => xi < 0
            /\ (0 < under /\ 2 * under <= pdfdict.delta) => xi = 0
            /\ 2 * over > pdfdict.delta => xi >= N
            /\ (0 < over /\ 2 * over <= pdfdict.delta) =>
                  xi = (IF 2 * over = pdfdict.delta /\ (N - 1) % 2 = 1
                        THEN N ELSE N - 1)

\* A value half a cell below the grid gets index 0; a sigma above the sigma
\* grid gets the last dictionary index.
C10_Witness ==
    /\ call.fn = "fit"
    /\ call.args.Xe[1] > pdfdict.sigma_grid[pdfdict.Ndict] + pdfdict.dsigma
    /\ call.result.Xe_idx[1] = pdfdict.Ndict - 1
    /\ call.args.X[1] < pdfdict.grid[1]
    /\ call.result.X_idx[1] = 0

\* C11: fit of a sigma equal to sigma_grid[k] returns the dictionary index k,
\* and fit of a value equal to grid[n] returns the grid index n.
C11_QuantizationRoundTrip ==
    call.fn = "fit" =>
        /\ \A k \in 0..(pdfdict.Ndict - 1) :
              call.args.Xe[1] = pdfdict.sigma_grid[k + 1]
                  => call.result.Xe_idx[1] = k
        /\ \A n \in 0..(pdfdict.Ngrid - 1) :
              call.args.X[1] = pdfdict.grid[n + 1]
                  => call.result.X_idx[1] = n

C11_Witness ==
    /\ call.fn = "fit"
    /\ pdfdict.Ngrid = 5
    /\ call.args.X[1] = pdfdict.grid[5]
    /\ call.args.Xe[1] = pdfdict.sigma_grid[1]
    /\ call.result.X_idx[1] = 4
    /\ call.result.Xe_idx[1] = 0

\* The frame of a gauss_kde_dict call that entered its loop as e and has then
\* run k steps (loop passes, then the return) with no other call in progress
\* and every array held by value.
RECURSIVE DictAlone(_, _, _)
DictAlone(self, e, k) ==
    IF k = 0 \/ e.pc # "loop" THEN e
    ELSE IF e.n < Len(e.sel_arr)
         THEN DictAlone(self, DictStep(self, e), k - 1)
         ELSE DictReturn(e)

\* The references the caller passed to the call of frame f.
InRefs(f) ==
    IF f.loc = None THEN {}
    ELSE {f.loc.in[fld] : fld \in DOMAIN f.loc.in} \ {None}

\* Every reference the frame f holds.
Held(f) ==
    IF f.loc = None THEN {}
    ELSE (InRefs(f) \cup
          {f.pdf, f.loc.y, f.loc.y_std, f.loc.y_idx, f.loc.y_std_idx,
           f.loc.y_wt, f.loc.X, f.loc.Xe, f.loc.X_idx, f.loc.Xe_idx,
           f.loc.y_cdf, f.loc.kernel, f.loc.kcdf}) \ {None}

\* The arrays the caller passed to the call of frame f are as it passed them.
InputsKept(f) ==
    f.loc # None =>
        \A fld \in DOMAIN f.loc.in :
            f.loc.in[fld] # None => Load(Mem, f.loc.in[fld]) = f.args[fld]

\* The output array of the gauss_kde_dict call of frame f is an array of its
\* own: no array of the dictionary, none the caller passed, none the other
\* caller's frame p holds; it has Ngrid zeros when line 482 has run.
OwnOutput(f, p) ==
    (f.fn = "gauss_kde_dict" /\ f.pdf # None) =>
        /\ f.pdf[1] = "heap"
        /\ f.pdf \notin InRefs(f)
        /\ f.pdf \notin Held(p)
        /\ f.pc = "487" =>
              Load(Mem, f.pdf) = [c \in 1..pdfdict.Ngrid |-> FZero]

\* The call of frame f has got as far as the same call run alone: between
\* two loop passes its output is that of the same passes run alone, and it
\* returns or raises what the call run alone returns or raises.
AsAlone(f) ==
    /\ (f.fn = "gauss_kde_dict" /\ f.pc = "502") =>
          \E e \in DictEntries(pdfdict, f.args) :
              /\ e.pc = "loop"
              /\ e.sel_arr = f.sel_arr
              /\ Load(Mem, f.pdf) = DictAlone(pdfdict, e, f.n).pdf
    /\ (f.fn = "gauss_kde_dict" /\ f.pc = "returned") =>
          \E e \in DictEntries(pdfdict, f.args) :
              LET a == DictAlone(pdfdict, e, Len(e.sel_arr) + 1)
              IN  /\ a.pc = "returned"
                  /\ e.sel_arr = f.sel_arr
                  /\ Load(Mem, f.result) = a.result
    /\ (f.fn = "gauss_kde_dict" /\ f.pc = "raised") =>
          \E e \in DictEntries(pdfdict, f.args) :
              LET a == DictAlone(pdfdict, e, Len(e.sel_arr) + 1)
              IN  /\ a.pc = "raised"
                  /\ a.exc = f.exc
                  /\ e.sel_arr = f.sel_arr
    /\ (f.fn = "fit" /\ f.pc = "returned") =>
          LET r == fit(pdfdict, f.args.X, f.args.Xe)
          IN  /\ Load(Mem, f.result[1]) = r.X_idx
              /\ Load(Mem, f.result[2]) = r.Xe_idx

\* Neither caller's call is disturbed by the other's.
C12_Isolated ==
    \A w \in Callers :
        /\ InputsKept(Mine(w))
        /\ OwnOutput(Mine(w), Peer(w))
        /\ AsAlone(Mine(w))

\* A step leaves every field of a constructed dictionary as it was.
C12_Frozen ==
    pdfdict # None =>
        /\ pdfdict' # None
        /\ pdfdict'.Ngrid = pdfdict.Ngrid
        /\ pdfdict'.grid = pdfdict.grid
        /\ pdfdict'.sigma_grid = pdfdict.sigma_grid
        /\ pdfdict'.sigma_width = pdfdict.sigma_width
        /\ pdfdict'.sigma_dict = pdfdict.sigma_dict
        /\ pdfdict'.sigma_dict_cdf = pdfdict.sigma_dict_cdf

\* C12: once the dictionary is constructed, no statement of a fit or
\* gauss_kde_dict call changes its grid, sigma_grid, sigma_width, sigma_dict
\* or sigma_dict_cdf; every gauss_kde_dict call stores only into an output
\* array of its own that starts as Ngrid zeros; and two calls sharing the
\* dictionary, their statements interleaved in any order, each return what
\* they return when run alone.
C12_SharedDictionary == []C12_Isolated /\ [][C12_Frozen]_vars

\* Both callers are inside the second pass of their loops, on different
\* batches, each about to add to an output that holds its first pass.
C12_Witness ==
    /\ call.fn = "gauss_kde_dict" /\ other.fn = "gauss_kde_dict"
    /\ call.pc = "519+" /\ other.pc = "519+"
    /\ call.n = 1 /\ other.n = 1
    /\ call.args # other.args
    /\ call.pdf # other.pdf
    /\ Load(Mem, call.pdf) # Load(Mem, other.pdf)
    /\ Load(Mem, call.pdf) # Zeros(pdfdict.Ngrid)
    /\ Load(Mem, other.pdf) # Zeros(pdfdict.Ngrid)

\* The last pass of the gauss_kde loop body is recorded in call.it.
KdeIterated == call.fn = "gauss_kde" /\ call.it # None

\* The 0-based output indices the last gauss_kde pass has added to.
KdeWritten ==
    IF call.it.add = None THEN {}
    ELSE {c \in 0..(Len(call.args.x) - 1) : call.it.lo <= c /\ c < call.it.hi}

\* C13: for every selected observation of gauss_kde the clamped bounds obey
\* 0 <= lower <= Ngrid and 0 <= upper <= Ngrid, the pass adds to the output
\* only at indices within [center - offset, center + offset], and a window
\* wholly below index 0 or wholly above Ngrid adds nothing.
C13_WindowClamped ==
    KdeIterated =>
        LET Nx     == Len(call.args.x)
            center == call.loc.centers[call.it.i + 1]
            offset == call.loc.offsets[call.it.i + 1]
        IN  /\ 0 <= call.it.lower /\ call.it.lower <= Nx
            /\ 0 <= call.it.upper /\ call.it.upper <= Nx
            /\ \A c \in KdeWritten : center - offset <= c /\ c <= center + offset
            /\ (center + offset < 0 \/ center - offset > Nx) => KdeWritten = {}

\* Every kernel of the dictionary has its 2*width+1 samples.
FullKernels(self) ==
    \A i \in 1..self.Ndict :
        Len(self.sigma_dict[i]) = 2 * self.sigma_width[i] + 1

\* The step is a pass of the gauss_kde_dict loop body that raised nothing.
DictPassed ==
    /\ call.fn = "gauss_kde_dict" /\ call'.fn = "gauss_kde_dict"
    /\ call'.n = call.n + 1
    /\ call'.exc = NoExc

\* C14: on a dictionary of full kernels, a pass of the gauss_kde_dict loop
\* that raises nothing pastes exactly high-low kernel samples, with
\* 0 <= low <= high <= Ngrid (no negative index, no wrap-around); output
\* cell c in [low, high) grows by (wt / norm) * kernel[c - (pos - width)],
\* so that the kernel centre lands on cell pos, and every other cell of the
\* output is left as it was.
C14_KernelPlacement ==
    [][(DictPassed /\ FullKernels(pdfdict)) =>
        LET it     == call'.it
            kernel == pdfdict.sigma_dict[it.idx + 1]
            first  == it.pos - it.width
        IN  /\ Len(it.pasted) = it.high - it.low
            /\ 0 <= it.low /\ it.low <= it.high /\ it.high <= pdfdict.Ngrid
            /\ it.low = Max2(first, 0)
            /\ it.high = Min2(it.pos + it.width + 1, pdfdict.Ngrid)
            /\ \A c \in 0..(pdfdict.Ngrid - 1) :
                  call'.pdf[c + 1] =
                      IF it.low <= c /\ c < it.high
                      THEN FAdd(call.pdf[c + 1],
                                FScale(Frac(it.wt, it.norm),
                                       kernel[c - first + 1]))
                      ELSE call.pdf[c + 1]
      ]_vars

C14_Witness ==
    /\ DictIterated
    /\ call.exc = NoExc
    /\ FullKernels(pdfdict)
    /\ call.n = 2
    /\ call.it.hpad < 0 /\ call.it.low < call.it.high
    /\ call.it.width = 2
    /\ Len(call.it.pasted) = call.it.high - call.it.low
    /\ call.pdf[call.it.pos + 1] # FZero

=============================================================================
